---- MODULE Spec2Model ----
(***************************************************************************)
(* raw2mpc.py: the Raw data file to MATPOWER case converter.               *)
(*                                                                         *)
(* A field of the input is a text: a sequence of one-character strings.    *)
(* A row is what csv.reader yields for one line: a sequence of fields.     *)
(* A number of the case model (a cell of a numpy table, baseMVA) is held   *)
(* in tenths, so that 1.1 is 11, 0.9 is 9 and 360.0 is 3600; the numerals  *)
(* of the inputs carry at most one fractional digit.                       *)
(* Columns and row positions are 0-based in the source and 1-based here:   *)
(* Python's row[k] is row[k + 1], bus[idx, k] is busdata[idx + 1][k + 1].  *)
(***************************************************************************)
EXTENDS Integers, Sequences, FiniteSets, TLC

\* ------------------------------------------------------------------ bounds
\* The most rows a section of an input file holds.
MaxBus == 2
MaxLoad == 2
MaxFixedShunt == 1
MaxGen == 2
MaxBranch == 2

\* ------------------------------------------------------- program constants
DEFAULT_VERSION == 30
SUPPORTED_VERSIONS == {29, 30, 31, 32}
buscol == 13
gencol == 21
brchcol == 13

\* Python's None, for an absent argument and for _busidx's "not found".
None == -1

\* ------------------------------------------------------------------- texts
Digits == {"0", "1", "2", "3", "4", "5", "6", "7", "8", "9"}
Whitespace == {" "}

DigitVal(c) ==
  CASE c = "0" -> 0 [] c = "1" -> 1 [] c = "2" -> 2 [] c = "3" -> 3
    [] c = "4" -> 4 [] c = "5" -> 5 [] c = "6" -> 6 [] c = "7" -> 7
    [] c = "8" -> 8 [] c = "9" -> 9

\* str.lstrip(chars), str.rstrip(chars), str.strip(chars)
RECURSIVE LStrip(_, _)
LStrip(s, chars) ==
  IF s # <<>> /\ Head(s) \in chars THEN LStrip(Tail(s), chars) ELSE s

RECURSIVE RStrip(_, _)
RStrip(s, chars) ==
  IF s # <<>> /\ s[Len(s)] \in chars
    THEN RStrip(SubSeq(s, 1, Len(s) - 1), chars)
    ELSE s

Strip(s, chars) == RStrip(LStrip(s, chars), chars)

\* s.split(c)[0]: the text before the first c
RECURSIVE SplitHead(_, _)
SplitHead(s, c) ==
  IF s = <<>> \/ Head(s) = c THEN <<>> ELSE <<Head(s)>> \o SplitHead(Tail(s), c)

\* s.split(c)[1:] joined: the text after the first c (<<>> when there is none)
RECURSIVE SplitRest(_, _)
SplitRest(s, c) ==
  IF s = <<>> THEN <<>> ELSE IF Head(s) = c THEN Tail(s) ELSE SplitRest(Tail(s), c)

IsDigits(s) == s # <<>> /\ \A k \in 1..Len(s) : s[k] \in Digits

RECURSIVE DigitsVal(_)
DigitsVal(s) ==
  IF s = <<>> THEN 0
  ELSE DigitsVal(SubSeq(s, 1, Len(s) - 1)) * 10 + DigitVal(s[Len(s)])

Unsigned(s) == IF s # <<>> /\ Head(s) \in {"-", "+"} THEN Tail(s) ELSE s
Sign(s) == IF s # <<>> /\ Head(s) = "-" THEN 0 - 1 ELSE 1

\* int(text): surrounding whitespace is ignored, a sign is allowed, the rest
\* must be digits ("0.0" is a ValueError).
IntOK(text) == IsDigits(Unsigned(Strip(text, Whitespace)))
IntVal(text) ==
  LET t == Strip(text, Whitespace) IN Sign(t) * DigitsVal(Unsigned(t))

\* float(text), in tenths: digits, optionally a point and digits.
FloatOK(text) ==
  LET t == Unsigned(Strip(text, Whitespace))
      ip == SplitHead(t, ".")
      fp == SplitRest(t, ".")
  IN /\ ip \o fp # <<>>
     /\ \A k \in 1..Len(ip) : ip[k] \in Digits
     /\ \A k \in 1..Len(fp) : fp[k] \in Digits
FloatVal(text) ==
  LET t == Strip(text, Whitespace)
      u == Unsigned(t)
      ip == SplitHead(u, ".")
      fp == SplitRest(u, ".")
  IN Sign(t) * (DigitsVal(ip) * 10 + (IF fp = <<>> THEN 0 ELSE DigitVal(fp[1])))

\* bool(text): a str is false only when it is empty
Bool(text) == text # <<>>

\* The first exception a row raises when the fields named in convs are read and
\* converted in the order given; a conversion is <<k, how>> for
\* row[k] (how = "str"), int(row[k]) or float(row[k]).
ConvErr(row, c) ==
  IF c[1] >= Len(row) THEN "IndexError"
  ELSE IF c[2] = "int" /\ ~IntOK(row[c[1] + 1]) THEN "ValueError"
  ELSE IF c[2] = "float" /\ ~FloatOK(row[c[1] + 1]) THEN "ValueError"
  ELSE "none"

FirstErr(row, convs) ==
  LET bad == {n \in 1..Len(convs) : ConvErr(row, convs[n]) # "none"}
  IN IF bad = {} THEN "none"
     ELSE ConvErr(row, convs[CHOOSE n \in bad : \A m \in bad : n <= m])

\* A section ends at a row whose first field, cut at "/" and stripped, is "0".
IsSentinel(row) == Strip(SplitHead(row[1], "/"), Whitespace) = <<"0">>

\* ----------------------------------------------------------------- _busidx
_busidx(i, busmap) ==
  LET key == Strip(i, {"'"})
  IN IF key \in DOMAIN busmap THEN busmap[key] ELSE None


\* dict: the empty dict and d[k] = v
EmptyDict == [k \in {} |-> 0]
DictPut(d, k, v) == [x \in DOMAIN d \cup {k} |-> IF x = k THEN v ELSE d[x]]

\* ---------------------------------------------------------- the input file
\* The rows csv.reader yields for the lines of a well-formed file of revision
\* rv, section by section, in the layouts the source's comments give.
T0 == <<"0">>
T1 == <<"1">>
T2 == <<"2">>
T3 == <<"3">>
T9 == <<"9">>
TZero == <<"0", ".", "0">>
TOne == <<"1", ".", "0">>
TQ1 == <<"'", "1", "'">>
T100 == <<"1", "0", "0">>

\* v29-30: IC, SBASE, REV / COMMENT
\* v31-32: IC, SBASE, REV, XFRRAT, NXFRAT, BASFRQ / COMMENT
HeaderRevs ==
  { <<"2", "9">>, <<"3", "0">>, <<"3", "1">>, <<"3", "2">>, <<"9", "9">>,
    <<"3", "0", " ", "/", " ", "c">> }
Headers ==
  LET ics == {T0, T1, T2}
      sbase == <<"1", "0", "0", ".", "0">>
  IN {<<ic, sbase>> : ic \in ics}
       \cup {<<ic, sbase, r>> : ic \in ics, r \in HeaderRevs}
       \cup {<<ic, sbase, r, TZero, TOne, <<"5", "0">>>> :
               ic \in {T0}, r \in {<<"3", "1">>, <<"3", "2">>}}

\* v29-30: I, 'NAME', BASKV, IDE, GL, BL, AREA, ZONE, VM, VA, OWNER
\* v31-32: I, 'NAME', BASKV, IDE, AREA, ZONE, OWNER, VM, VA
BusSpecs ==
  { [i |-> T1, name |-> <<"'", "A", "'">>, ide |-> T3],
    [i |-> T2, name |-> <<"'", "B", "'">>, ide |-> T1],
    [i |-> T2, name |-> <<"'", "A", "'">>, ide |-> T1] }
BusLine(rv, b) ==
  IF rv \in {29, 30}
    THEN <<b.i, b.name, <<"1", "3", "8">>, b.ide, TZero, TZero, T1, T2, TOne, TZero, T1>>
    ELSE <<b.i, b.name, <<"1", "3", "8">>, b.ide, T1, T2, T1, TOne, TZero>>

\* v29-31: I, ID, STATUS, AREA, ZONE, PL, QL, IP, IQ, YP, YQ, OWNER
\* v32:    I, ID, STATUS, AREA, ZONE, PL, QL, IP, IQ, YP, YQ, OWNER, SCALE
LoadSpecs ==
  { [i |-> T1, status |-> T1, pl |-> <<"1", "0">>, ql |-> <<"5">>],
    [i |-> T1, status |-> T1, pl |-> T3, ql |-> T1],
    [i |-> T1, status |-> T0, pl |-> T3, ql |-> T1],
    [i |-> T9, status |-> T1, pl |-> T3, ql |-> T1] }
LoadLine(rv, l) ==
  <<l.i, TQ1, l.status, T1, T2, l.pl, l.ql, TZero, TZero, TZero, TZero, T1>>
    \o (IF rv = 32 THEN <<TOne>> ELSE <<>>)

\* v31-32 fixed shunts: I, ID, STATUS, GL, BL
FixedShuntLine(i) == <<i, TQ1, T1, TZero, <<"5", ".", "0">>>>

\* I,ID,PG,QG,QT,QB,VS,IREG,MBASE,ZR,ZX,RT,XT,GTAP,STAT,RMPCT,PT,PB
GenLine(i) ==
  <<i, TQ1, <<"4", "0">>, <<"1", "0">>, <<"2", "0">>, T0, TOne, T0, T100,
    T0, T1, T0, T0, TOne, T1, T100, <<"8", "0">>, T0>>

\* v29-30: I,J,CKT,R,X,B,RATEA,RATEB,RATEC,GI,BI,GJ,BJ,ST,LEN
\* v31-32: I,J,CKT,R,X,B,RATEA,RATEB,RATEC,GI,BI,GJ,BJ,ST,MET,LEN
BranchEnds == {<<T1, T2>>, <<T2, T1>>, <<T1, T9>>}
BranchLine(rv, ij) ==
  <<ij[1], ij[2], TQ1, <<"0", ".", "1">>, <<"0", ".", "2">>, T0, T100, T100,
    T100, T0, T0, T0, T0, T1>>
    \o (IF rv \in {31, 32} THEN <<T1, T0>> ELSE <<T0>>)

\* 0 / END OF ... DATA: the row a section ends with, as the reader yields it
\* for a line that is "0" alone and for one with a comment after it.
SentinelRows == { <<T0>>, <<<<"0", " ", "/", " ", "E">>, <<"B">>>> }

SectionRows(sec, rv) ==
  CASE sec = "bus" -> {BusLine(rv, b) : b \in BusSpecs}
    [] sec = "load" -> {LoadLine(rv, l) : l \in LoadSpecs}
    [] sec = "fixed_shunt" -> {FixedShuntLine(i) : i \in {T1, T9}}
    [] sec = "gen" -> {GenLine(i) : i \in {T1, T9}}
    [] sec = "branch" -> {BranchLine(rv, ij) : ij \in BranchEnds}
    [] OTHER -> {}

MaxRows(sec) ==
  CASE sec = "bus" -> MaxBus
    [] sec = "load" -> MaxLoad
    [] sec = "fixed_shunt" -> MaxFixedShunt
    [] sec = "gen" -> MaxGen
    [] sec = "branch" -> MaxBranch
    [] OTHER -> 0

\* The section that follows sec in a file of revision rv.
NextFileSec(sec, rv) ==
  CASE sec = "bus" -> "load"
    [] sec = "load" -> IF rv \in {31, 32} THEN "fixed_shunt" ELSE "gen"
    [] sec = "fixed_shunt" -> "gen"
    [] sec = "gen" -> "branch"
    [] OTHER -> "transformer"

\* The revision a header row declares, when it is a supported one.
FileRev(h) ==
  IF Len(h) >= 3 /\ IntOK(SplitHead(h[3], "/"))
       /\ IntVal(SplitHead(h[3], "/")) \in SUPPORTED_VERSIONS
    THEN IntVal(SplitHead(h[3], "/"))
    ELSE DEFAULT_VERSION

VARIABLES
  tpc,        \* raw2mpc: the statement block that runs next
  status,     \* raw2mpc: status
  pf_fd,      \* the handle raw2mpc opened for pf_rawfile: "none", "open", "closed"
  opf_fd,     \* the handle raw2mpc opened for opf_rawfile
  mpc,        \* raw2mpc: mpc, a dict
  pc,         \* pf2mpc: the call that runs next, or the one that raised
  err,        \* the exception that left pf2mpc, "none" while there is none
  rev,        \* pf2mpc: rev
  h0,         \* the first line of the file, until _case_identification has read it
  baseMVA,    \* pf2mpc: baseMVA
  busdata,    \* pf2mpc: busdata, the bus table
  busmap,     \* pf2mpc: busmap, the bus index
  gendata,    \* pf2mpc: gendata
  branchdata, \* pf2mpc: branchdata
  frev,       \* the revision whose layout the file follows
  fsec,       \* the section of the file the reader stands in
  fcount,     \* the rows of that section the reader has yielded
  failed,     \* history: the status codes assigned, in order
  seclog,     \* history: the rows read by the section parser named by logsec
  logsec,     \* history: the section parser that read last
  sawdata     \* history: the reader has yielded a row that is no sentinel

topVars == <<tpc, status, pf_fd, opf_fd, mpc, failed>>
caseVars == <<rev, h0, baseMVA>>
tableVars == <<busdata, busmap, gendata, branchdata>>
fileVars == <<frev, fsec, fcount>>
logVars == <<seclog, logsec, sawdata>>
vars == <<topVars, pc, err, caseVars, tableVars, fileVars, logVars>>

Init ==
  /\ tpc = "pf" /\ status = 0 /\ pf_fd = "none" /\ opf_fd = "none"
  /\ mpc = EmptyDict /\ failed = <<>>
  /\ pc = "start" /\ err = "none" /\ rev = None /\ h0 = <<>> /\ baseMVA = 0
  /\ busdata = <<>> /\ busmap = EmptyDict /\ gendata = <<>> /\ branchdata = <<>>
  /\ frev = DEFAULT_VERSION /\ fsec = "bus" /\ fcount = 0
  /\ seclog = <<>> /\ logsec = "none" /\ sawdata = FALSE

\* reader.next(): the end of the file, a sentinel or a row of the section.
Reads ==
  [eof : {TRUE}, row : {<<>>}]
    \cup [eof : {FALSE},
          row : SentinelRows
                  \cup (IF fcount < MaxRows(fsec) THEN SectionRows(fsec, frev) ELSE {})]

FileNext(row) ==
  /\ IF row \in SentinelRows
       THEN fsec' = NextFileSec(fsec, frev) /\ fcount' = 0 /\ frev' = frev
       ELSE fcount' = fcount + 1 /\ UNCHANGED <<fsec, frev>>
  /\ sawdata' = (sawdata \/ row \notin SentinelRows)

LogRead(parser, row) ==
  LET base == IF logsec = parser THEN seclog ELSE <<>>
  IN /\ seclog' = (IF IsSentinel(row) THEN base ELSE Append(base, row))
     /\ logsec' = parser


\* ------------------------------------------------------------------ raw2mpc
\* The power flow input: a path is opened (and the open may fail), a file-like
\* object is handed to pf2mpc as it is.
raw2mpc_pf ==
  /\ tpc = "pf"
  /\ \E isPath \in BOOLEAN, opens \in BOOLEAN :
       IF isPath /\ ~opens
         THEN /\ status' = 1
              /\ failed' = Append(failed, 1)
              /\ tpc' = "opf"
              /\ pf_fd' = pf_fd
         ELSE /\ pf_fd' = (IF isPath THEN "open" ELSE "none")
              /\ tpc' = "pf2mpc"
              /\ UNCHANGED <<status, failed>>
  /\ UNCHANGED <<opf_fd, mpc, pc, err, caseVars, tableVars, fileVars, logVars>>

\* pf2mpc has ended: an exception leaves the finally block before fd.close()
\* and leaves raw2mpc; a returned case is merged into mpc after fd.close().
raw2mpc_pf_exit ==
  /\ tpc = "pf2mpc"
  /\ err # "none" \/ pc = "return"
  /\ IF err # "none"
       THEN tpc' = "raised" /\ UNCHANGED <<pf_fd, mpc>>
       ELSE /\ tpc' = "opf"
            /\ pf_fd' = (IF pf_fd = "open" THEN "closed" ELSE pf_fd)
            /\ mpc' = DictPut(DictPut(DictPut(DictPut(mpc,
                        "baseMVA", baseMVA), "bus", busdata), "gen", gendata),
                        "branch", branchdata)
  /\ UNCHANGED <<status, failed, opf_fd, pc, err, caseVars, tableVars, fileVars, logVars>>

\* raw2mpc_opf keeping a status that is already set.
raw2mpc_opf_keeps_status ==
  /\ tpc = "opf"
  /\ \E kind \in {"None", "path", "stream"}, opens \in BOOLEAN :
       IF kind = "path" /\ ~opens
         THEN /\ status' = (IF status = 0 THEN 2 ELSE status)
              /\ failed' = Append(failed, 2)
              /\ tpc' = "save"
              /\ opf_fd' = opf_fd
         ELSE /\ opf_fd' = (IF kind = "path" THEN "open" ELSE opf_fd)
              /\ tpc' = (IF kind = "None" THEN "save" ELSE "opf2mpc")
              /\ UNCHANGED <<status, failed>>
  /\ UNCHANGED <<pf_fd, mpc, pc, err, caseVars, tableVars, fileVars, logVars>>

\* The optimal power flow input: None, a path or a file-like object.
raw2mpc_opf ==
  /\ tpc = "opf"
  /\ \E kind \in {"None", "path", "stream"}, opens \in BOOLEAN :
       IF kind = "path" /\ ~opens
         THEN /\ status' = 2
              /\ failed' = Append(failed, 2)
              /\ tpc' = "save"
              /\ opf_fd' = opf_fd
         ELSE /\ opf_fd' = (IF kind = "path" THEN "open" ELSE opf_fd)
              /\ tpc' = (IF kind = "None" THEN "save" ELSE "opf2mpc")
              /\ UNCHANGED <<status, failed>>
  /\ UNCHANGED <<pf_fd, mpc, pc, err, caseVars, tableVars, fileVars, logVars>>

\* opf2mpc returns {}; raw2mpc closes the handle it opened and merges {}.
opf2mpc ==
  /\ tpc = "opf2mpc"
  /\ opf_fd' = (IF opf_fd = "open" THEN "closed" ELSE opf_fd)
  /\ tpc' = "save"
  /\ UNCHANGED <<status, failed, pf_fd, mpc, pc, err, caseVars, tableVars, fileVars, logVars>>

\* savemat runs when a matfile is given and mpc holds a key, and may fail.
raw2mpc_save ==
  /\ tpc = "save"
  /\ \E matfile \in BOOLEAN, saves \in BOOLEAN :
       IF matfile /\ DOMAIN mpc # {} /\ ~saves
         THEN status' = 3 /\ failed' = Append(failed, 3)
         ELSE UNCHANGED <<status, failed>>
  /\ tpc' = "returned"
  /\ UNCHANGED <<pf_fd, opf_fd, mpc, pc, err, caseVars, tableVars, fileVars, logVars>>

\* ------------------------------------------------------------------ pf2mpc
\* _version on the header row h: the exception it raises, and its result.
_version_err(h) ==
  IF h = <<>> THEN "StopIteration"
  ELSE IF Len(h) < 3 THEN "none"
  ELSE IF "/" \in {h[3][k] : k \in 1..Len(h[3])}
    THEN (IF IntOK(Strip(SplitHead(h[3], "/"), Whitespace)) THEN "none" ELSE "ValueError")
    ELSE (IF IntOK(h[3]) THEN "none" ELSE "ValueError")

_version(h) ==
  IF Len(h) < 3 THEN DEFAULT_VERSION
  ELSE LET version ==
             IF "/" \in {h[3][k] : k \in 1..Len(h[3])}
               THEN IntVal(Strip(SplitHead(h[3], "/"), Whitespace))
               ELSE IntVal(h[3])
       IN IF version \notin SUPPORTED_VERSIONS THEN DEFAULT_VERSION ELSE version

\* _delimiter reads the first line: the exception it raises on an empty file.
_delimiter_err(h) == IF h = <<>> THEN "StopIteration" ELSE "none"

\* pf2mpc up to the creation of the reader: sep and rev. The file is opened
\* here for reading: its first line (none in an empty file) and the revision
\* whose layout its sections follow.
pf2mpc ==
  /\ tpc = "pf2mpc" /\ err = "none" /\ pc = "start"
  /\ \E header \in Headers \cup {<<>>},
        version \in {None, 99} \cup SUPPORTED_VERSIONS,
        delimiterGiven \in BOOLEAN :
       LET e1 == IF delimiterGiven THEN "none" ELSE _delimiter_err(header)
           e2 == IF version # None THEN "none" ELSE _version_err(header)
           e == IF e1 # "none" THEN e1 ELSE e2
       IN /\ h0' = header
          /\ frev' = FileRev(header)
          /\ IF e # "none"
               THEN err' = e /\ UNCHANGED <<pc, rev>>
               ELSE /\ rev' = (IF version = None THEN _version(header) ELSE version)
                    /\ pc' = "caseid"
                    /\ err' = err
  /\ UNCHANGED <<topVars, baseMVA, tableVars, fsec, fcount, logVars>>

\* _case_identification: three lines are read, of which the file holds the
\* first `lines`; then the assertion on IC and float(h0[1]).
_case_identification ==
  /\ tpc = "pf2mpc" /\ err = "none" /\ pc = "caseid"
  /\ \E lines \in 0..3 :
       /\ (h0 = <<>>) <=> (lines = 0)
       /\ LET e == IF lines < 3 THEN "StopIteration"
                   ELSE IF h0[1] \notin {T0, T1} THEN "AssertionError"
                   ELSE FirstErr(h0, <<<<1, "float">>>>)
          IN IF e # "none"
               THEN err' = e /\ UNCHANGED <<pc, baseMVA, h0>>
               ELSE /\ baseMVA' = FloatVal(h0[2])
                    /\ pc' = "bus"
                    /\ h0' = <<>>
                    /\ err' = err
  /\ UNCHANGED <<topVars, rev, tableVars, fileVars, logVars>>


\* --------------------------------------------------------------- _bus_data
\* The fields a bus row is read at, in the order of the loop body.
BusConvs(version) ==
  <<<<0, "str">>, <<1, "str">>, <<0, "int">>, <<3, "float">>>>
    \o (IF version \in {29, 30}
          THEN <<<<4, "float">>, <<5, "float">>, <<6, "int">>, <<8, "float">>,
                 <<9, "float">>, <<7, "float">>>>
        ELSE IF version \in {31, 32}
          THEN <<<<4, "int">>, <<7, "float">>, <<8, "float">>, <<5, "float">>>>
        ELSE <<>>)
    \o <<<<2, "float">>>>

\* bus = zeros((1, buscol)) with the cells the loop body assigns.
BusRecord(row, version) ==
  LET v2930 == version \in {29, 30}
      v3132 == version \in {31, 32}
  IN [k \in 1..buscol |->
        CASE k = 1 -> IntVal(row[1]) * 10
          [] k = 2 -> FloatVal(row[4])
          [] k = 5 -> IF v2930 THEN FloatVal(row[5]) ELSE 0
          [] k = 6 -> IF v2930 THEN FloatVal(row[6]) ELSE 0
          [] k = 7 -> IF v2930 THEN IntVal(row[7]) * 10
                      ELSE IF v3132 THEN IntVal(row[5]) * 10 ELSE 0
          [] k = 8 -> IF v2930 THEN FloatVal(row[9])
                      ELSE IF v3132 THEN FloatVal(row[8]) ELSE 0
          [] k = 9 -> IF v2930 THEN FloatVal(row[10])
                      ELSE IF v3132 THEN FloatVal(row[9]) ELSE 0
          [] k = 10 -> FloatVal(row[3])
          [] k = 11 -> IF v2930 THEN FloatVal(row[8])
                       ELSE IF v3132 THEN FloatVal(row[6]) ELSE 0
          [] k = 12 -> 11
          [] k = 13 -> 9
          [] OTHER -> 0]

\* buses = r_[buses, bus]
BusAppend(buses, row, version) == Append(buses, BusRecord(row, version))

\* BusMapPut with c counted before the row is mapped.
BusMapPut_counted_first(bm, row, c) ==
  DictPut(DictPut(bm, row[1], c + 1), Strip(row[2], {"'"}), c + 1)

\* busmap[i] = c; busmap[name] = c
BusMapPut(bm, row, c) ==
  DictPut(DictPut(bm, row[1], c), Strip(row[2], {"'"}), c)

\* One pass of _bus_data's loop: reader.next(), then the sentinel test and the
\* loop body; c is len(buses).
_bus_data ==
  /\ tpc = "pf2mpc" /\ err = "none" /\ pc = "bus"
  /\ \E rd \in Reads :
       IF rd.eof
         THEN err' = "StopIteration" /\ UNCHANGED <<pc, tableVars, fileVars, logVars>>
         ELSE LET row == rd.row
                  e == IF IsSentinel(row) THEN "none" ELSE FirstErr(row, BusConvs(rev))
              IN /\ FileNext(row)
                 /\ err' = e
                 /\ IF e # "none"
                      THEN UNCHANGED <<pc, tableVars, seclog, logsec>>
                      ELSE /\ LogRead("bus", row)
                           /\ IF IsSentinel(row)
                                THEN pc' = "load" /\ UNCHANGED tableVars
                                ELSE /\ busdata' = BusAppend(busdata, row, rev)
                                     /\ busmap' = BusMapPut(busmap, row, Len(busdata))
                                     /\ UNCHANGED <<pc, gendata, branchdata>>
  /\ UNCHANGED <<topVars, caseVars>>

\* -------------------------------------------------------------- _load_data
\* Whether the loop body takes the row: status == True and idx != None.
LoadTaken(bm, row) == Bool(row[3]) /\ _busidx(row[1], bm) # None

LoadConvs(bm, row, version) ==
  <<<<2, "str">>, <<0, "str">>>>
    \o (IF Len(row) >= 3 /\ LoadTaken(bm, row)
          THEN <<<<5, "float">>, <<6, "float">>, <<7, "float">>, <<8, "float">>,
                 <<9, "float">>, <<10, "float">>>>
                 \o (IF version = 32 THEN <<<<12, "float">>>> ELSE <<>>)
          ELSE <<>>)

\* bus[idx, 2] = float(loaddata[5]); bus[idx, 3] = float(loaddata[6])
LoadApply(bus, bm, row) ==
  IF LoadTaken(bm, row)
    THEN LET idx == _busidx(row[1], bm)
         IN [bus EXCEPT ![idx + 1][3] = FloatVal(row[6]),
                        ![idx + 1][4] = FloatVal(row[7])]
    ELSE bus

_load_data ==
  /\ tpc = "pf2mpc" /\ err = "none" /\ pc = "load"
  /\ \E rd \in Reads :
       IF rd.eof
         THEN err' = "StopIteration" /\ UNCHANGED <<pc, tableVars, fileVars, logVars>>
         ELSE LET row == rd.row
                  e == IF IsSentinel(row) THEN "none"
                       ELSE FirstErr(row, LoadConvs(busmap, row, rev))
              IN /\ FileNext(row)
                 /\ err' = e
                 /\ IF e # "none"
                      THEN UNCHANGED <<pc, tableVars, seclog, logsec>>
                      ELSE /\ LogRead("load", row)
                           /\ IF IsSentinel(row)
                                THEN /\ pc' = (IF rev \in {31, 32} THEN "fixed_shunt" ELSE "gen")
                                     /\ UNCHANGED tableVars
                                ELSE /\ busdata' = LoadApply(busdata, busmap, row)
                                     /\ UNCHANGED <<pc, busmap, gendata, branchdata>>
  /\ UNCHANGED <<topVars, caseVars>>

\* _fixed_shunt_data(reader): pass
_fixed_shunt_data ==
  /\ tpc = "pf2mpc" /\ err = "none" /\ pc = "fixed_shunt"
  /\ pc' = "gen"
  /\ UNCHANGED <<topVars, err, caseVars, tableVars, fileVars, logVars>>

\* --------------------------------------------------------- _generator_data
GenConvs(bm, row) ==
  <<<<0, "str">>>>
    \o (IF _busidx(row[1], bm) # None
          THEN <<<<2, "float">>, <<3, "float">>, <<4, "float">>, <<5, "float">>,
                 <<6, "float">>, <<8, "float">>, <<14, "float">>, <<16, "float">>,
                 <<17, "float">>>>
          ELSE <<>>)

\* gen = zeros((1, gencol)) with the cells the loop body assigns.
GenRecord(row) ==
  [k \in 1..gencol |->
     CASE k = 2 -> FloatVal(row[3])
       [] k = 3 -> FloatVal(row[4])
       [] k = 4 -> FloatVal(row[5])
       [] k = 5 -> FloatVal(row[6])
       [] k = 6 -> FloatVal(row[7])
       [] k = 7 -> FloatVal(row[9])
       [] k = 8 -> FloatVal(row[15])
       [] k = 9 -> FloatVal(row[17])
       [] k = 10 -> FloatVal(row[18])
       [] OTHER -> 0]

\* GenApply with the append moved out of the test on idx: a row whose bus does
\* not resolve appends a row of zeros.
GenApply_unguarded(generators, bm, row) ==
  Append(generators,
         IF _busidx(row[1], bm) # None THEN GenRecord(row) ELSE [k \in 1..gencol |-> 0])

\* The loop body: a row is appended when idx != None.
GenApply(generators, bm, row) ==
  IF _busidx(row[1], bm) # None
    THEN Append(generators, GenRecord(row))
    ELSE generators

_generator_data ==
  /\ tpc = "pf2mpc" /\ err = "none" /\ pc = "gen"
  /\ \E rd \in Reads :
       IF rd.eof
         THEN err' = "StopIteration" /\ UNCHANGED <<pc, tableVars, fileVars, logVars>>
         ELSE LET row == rd.row
                  e == IF IsSentinel(row) THEN "none" ELSE FirstErr(row, GenConvs(busmap, row))
              IN /\ FileNext(row)
                 /\ err' = e
                 /\ IF e # "none"
                      THEN UNCHANGED <<pc, tableVars, seclog, logsec>>
                      ELSE /\ LogRead("gen", row)
                           /\ IF IsSentinel(row)
                                THEN pc' = "branch" /\ UNCHANGED tableVars
                                ELSE /\ gendata' = GenApply(gendata, busmap, row)
                                     /\ UNCHANGED <<pc, busdata, busmap, branchdata>>
  /\ UNCHANGED <<topVars, caseVars>>

\* --------------------------------------------- _nontransformer_branch_data
BranchTaken(bm, row) ==
  _busidx(row[1], bm) # None /\ _busidx(row[2], bm) # None

BranchConvs(bm, row) ==
  <<<<0, "str">>, <<1, "str">>>>
    \o (IF Len(row) >= 2 /\ BranchTaken(bm, row)
          THEN <<<<3, "float">>, <<4, "float">>, <<5, "float">>, <<6, "float">>,
                 <<7, "float">>, <<8, "float">>, <<13, "float">>>>
          ELSE <<>>)

\* brch = zeros((1, brchcol)) with the cells the loop body assigns.
BranchRecord(bus, bm, row) ==
  LET fbus == _busidx(row[1], bm)
      tbus == _busidx(row[2], bm)
  IN [k \in 1..brchcol |->
        CASE k = 1 -> bus[fbus + 1][1]
          [] k = 2 -> bus[tbus + 1][2]
          [] k = 3 -> FloatVal(row[4])
          [] k = 4 -> FloatVal(row[5])
          [] k = 5 -> FloatVal(row[6])
          [] k = 6 -> FloatVal(row[7])
          [] k = 7 -> FloatVal(row[8])
          [] k = 8 -> FloatVal(row[9])
          [] k = 11 -> FloatVal(row[14])
          [] k = 12 -> 0 - 3600
          [] k = 13 -> 3600
          [] OTHER -> 0]

\* The loop body: a row is appended when both ends resolve.
BranchApply(branches, bus, bm, row) ==
  IF BranchTaken(bm, row)
    THEN Append(branches, BranchRecord(bus, bm, row))
    ELSE branches

_nontransformer_branch_data ==
  /\ tpc = "pf2mpc" /\ err = "none" /\ pc = "branch"
  /\ \E rd \in Reads :
       IF rd.eof
         THEN err' = "StopIteration" /\ UNCHANGED <<pc, tableVars, fileVars, logVars>>
         ELSE LET row == rd.row
                  e == IF IsSentinel(row) THEN "none"
                       ELSE FirstErr(row, BranchConvs(busmap, row))
              IN /\ FileNext(row)
                 /\ err' = e
                 /\ IF e # "none"
                      THEN UNCHANGED <<pc, tableVars, seclog, logsec>>
                      ELSE /\ LogRead("branch", row)
                           /\ IF IsSentinel(row)
                                THEN pc' = "transformer" /\ UNCHANGED tableVars
                                ELSE /\ branchdata' = BranchApply(branchdata, busdata, busmap, row)
                                     /\ UNCHANGED <<pc, busdata, busmap, gendata>>
  /\ UNCHANGED <<topVars, caseVars>>

\* ------------------------------------------------------------ placeholders
\* _transformer_data(reader, branch, version, busmap): pass
_transformer_data ==
  /\ tpc = "pf2mpc" /\ err = "none" /\ pc = "transformer"
  /\ pc' = "area"
  /\ UNCHANGED <<topVars, err, caseVars, tableVars, fileVars, logVars>>

\* _area_interchange_data(reader): pass
_area_interchange_data ==
  /\ tpc = "pf2mpc" /\ err = "none" /\ pc = "area"
  /\ pc' = "two_terminal_dc"
  /\ UNCHANGED <<topVars, err, caseVars, tableVars, fileVars, logVars>>

\* _two_terminal_dc_line_data(reader): pass
_two_terminal_dc_line_data ==
  /\ tpc = "pf2mpc" /\ err = "none" /\ pc = "two_terminal_dc"
  /\ pc' = "vsc_dc"
  /\ UNCHANGED <<topVars, err, caseVars, tableVars, fileVars, logVars>>

\* pf2mpc calls _vsc_dc_lines() with no argument and the function takes one:
\* the call raises TypeError, and the statements after it (the switched shunt
\* parser, the other placeholders, the assembly of the case) never run.
_vsc_dc_lines ==
  /\ tpc = "pf2mpc" /\ err = "none" /\ pc = "vsc_dc"
  /\ err' = "TypeError"
  /\ UNCHANGED <<topVars, pc, caseVars, tableVars, fileVars, logVars>>

Next ==
  \/ raw2mpc_pf
  \/ raw2mpc_pf_exit
  \/ raw2mpc_opf
  \/ opf2mpc
  \/ raw2mpc_save
  \/ pf2mpc
  \/ _case_identification
  \/ _bus_data
  \/ _load_data
  \/ _fixed_shunt_data
  \/ _generator_data
  \/ _nontransformer_branch_data
  \/ _transformer_data
  \/ _area_interchange_data
  \/ _two_terminal_dc_line_data
  \/ _vsc_dc_lines

Spec == Init /\ [][Next]_vars


\* ================================================================== claims
\* A bus identifier or name resolves when the bus index holds it, quotes
\* stripped; RowOf is the 1-based position of the bus row it resolves to.
Resolves(i) == Strip(i, {"'"}) \in DOMAIN busmap
RowOf(i) == busmap[Strip(i, {"'"})] + 1

BothResolve(row) == Resolves(row[1]) /\ Resolves(row[2])

\* The sum of float(row[col]) over the rows of log whose status is true (read
\* as the parser reads it, bool of the text) and whose bus is table row k.
RECURSIVE LoadSum(_, _, _)
LoadSum(log, k, col) ==
  IF log = <<>> THEN 0
  ELSE LET r == Head(log)
       IN (IF Bool(r[3]) /\ Resolves(r[1]) /\ RowOf(r[1]) = k
             THEN FloatVal(r[col]) ELSE 0)
            + LoadSum(Tail(log), k, col)

\* Whether the bus of a generator row resolves.
BusResolves(row) == Resolves(row[1])

\* C1: for every supported revision, a run of pf2mpc over a valid header
\* followed by sentinel rows only (as many as the pipeline asks for) goes
\* through every step without an error, and the case it returns has empty bus,
\* gen and branch tables.
C1_SentinelOnlyCompletes ==
  (~sawdata /\ rev \in SUPPORTED_VERSIONS /\ pc \notin {"start", "caseid"})
    => /\ err \in {"none", "StopIteration"}
       /\ busdata = <<>> /\ gendata = <<>> /\ branchdata = <<>>

\* C2: once the load section has been processed, Pd and Qd of every bus row
\* are the sums of PL and QL over the load rows of the section that are in
\* service and resolve to that bus.
C2_LoadAdditive ==
  (logsec = "load" /\ pc # "load" /\ err = "none" /\ rev = frev)
    => \A k \in 1..Len(busdata) :
         /\ busdata[k][3] = LoadSum(seclog, k, 6)
         /\ busdata[k][4] = LoadSum(seclog, k, 7)

\* C3: the generator table has as many rows as the rows the generator parser
\* has read whose bus resolves, and the branch table as many as the rows the
\* branch parser has read whose two ends both resolve: a row that does not
\* resolve appends nothing and the parser goes on to the next row.
C3_DropUnresolved ==
  /\ logsec = "gen" =>
       Len(gendata) = Len(SelectSeq(seclog, BusResolves))
  /\ logsec = "branch" =>
       Len(branchdata) = Len(SelectSeq(seclog, BothResolve))

\* A branch section of an unresolved row followed by a resolved one has been
\* parsed to its sentinel, after a generator section that left one generator.
C3_Witness ==
  /\ logsec = "branch" /\ pc = "transformer" /\ err = "none"
  /\ Len(seclog) = 2
  /\ ~BothResolve(seclog[1]) /\ BothResolve(seclog[2])
  /\ Len(branchdata) = 1 /\ Len(gendata) = 1

\* C4: a step of the load parser that reads a row whose status text is "0", or
\* whose bus identifier does not resolve, leaves the bus table as it was.
C4_SkippedLoadLeavesBuses ==
  [][ ( /\ pc = "load" /\ pc' = "load" /\ err' = "none" /\ rev = frev
        /\ Len(seclog') = Len(IF logsec = "load" THEN seclog ELSE <<>>) + 1
        /\ LET r == seclog'[Len(seclog')]
           IN r[3] = T0 \/ ~Resolves(r[1]) )
      => busdata' = busdata ]_vars

\* C5: the status raw2mpc returns is the code of the first failure met (0
\* when there is none); a later failure does not replace it.
C5_FirstFailureWins ==
  tpc = "returned" => status = (IF failed = <<>> THEN 0 ELSE failed[1])

\* C5 as amended: status is the code of the last failure met (0 when there
\* is none): a later failure replaces the code of an earlier one.
C5_LastFailureWins ==
  status = (IF failed = <<>> THEN 0 ELSE failed[Len(failed)])

\* raw2mpc has returned after both inputs failed to open.
C5_Witness == tpc = "returned" /\ failed = <<1, 2>>

\* C6: the revision the section parsers run under is a supported one, whether
\* it comes from the header or from the version argument.
C6_RevSupported == pc # "start" => rev \in SUPPORTED_VERSIONS

\* C7: when the generator parser or the branch parser runs on a file parsed
\* under its own revision, the reader stands in that parser's section: the
\* placeholders before it have read their sections up to the sentinel.
C7_CursorAligned ==
  (err = "none" /\ rev = frev /\ pc \in {"gen", "branch"}) => fsec = pc

\* C8: after the bus section, the bus table holds one row per distinct
\* identifier of the section, and for every bus of the section the lookup by
\* identifier and the lookup by name both give the position of a row whose
\* identifier field is that identifier.
C8_OneRowPerIdentifier ==
  (logsec = "bus" /\ pc = "load" /\ err = "none")
    => /\ Len(busdata) = Cardinality({seclog[n][1] : n \in 1..Len(seclog)})
       /\ \A n \in 1..Len(seclog) :
            LET byId == _busidx(seclog[n][1], busmap)
                byName == _busidx(seclog[n][2], busmap)
            IN /\ byId # None /\ byId = byName
               /\ busdata[byId + 1][1] = IntVal(seclog[n][1]) * 10

\* The last row of the bus section that carries key as its identifier or as
\* its quote-stripped name.
LastCarrier(key) ==
  LET at == {n \in 1..Len(seclog) :
               key \in {seclog[n][1], Strip(seclog[n][2], {"'"})}}
  IN CHOOSE n \in at : \A m \in at : m <= n

\* C8 as amended: the bus table holds one row per bus row of the section, in
\* the order read, with that row's identifier; the bus index holds exactly the
\* identifiers and stripped names of the section, and a lookup gives the
\* position of the last row that carries the key, so that the two lookups of a
\* bus whose identifier and name no later row repeats both give its own row.
C8_OneRowPerBusRow ==
  logsec = "bus" =>
    /\ Len(busdata) = Len(seclog)
    /\ \A n \in 1..Len(seclog) : busdata[n][1] = IntVal(seclog[n][1]) * 10
    /\ DOMAIN busmap =
         UNION {{seclog[n][1], Strip(seclog[n][2], {"'"})} : n \in 1..Len(seclog)}
    /\ \A key \in DOMAIN busmap : _busidx(key, busmap) = LastCarrier(key) - 1
    /\ \A n \in 1..Len(seclog) :
         (\A m \in (n + 1)..Len(seclog) :
            {seclog[m][1], Strip(seclog[m][2], {"'"})}
              \cap {seclog[n][1], Strip(seclog[n][2], {"'"})} = {})
           => /\ _busidx(seclog[n][1], busmap) = n - 1
              /\ _busidx(seclog[n][2], busmap) = n - 1

\* A bus section of two rows with different identifiers and one name has been
\* parsed to its sentinel.
C8_Witness ==
  /\ logsec = "bus" /\ pc = "load" /\ err = "none"
  /\ Len(seclog) = 2
  /\ seclog[1][1] # seclog[2][1] /\ seclog[1][2] = seclog[2][2]

\* C9: when raw2mpc has returned, or an exception has left it, no handle that
\* it opened is still open.
C9_HandlesReleased ==
  tpc \in {"returned", "raised"} => pf_fd # "open" /\ opf_fd # "open"

\* C10: in a file of revision 29 or 30 parsed under its revision, every row of
\* the branch table holds, in its from-bus and to-bus fields, the identifier
\* fields of the bus rows its two ends resolved to.
C10_BranchEndIdentifiers ==
  (logsec = "branch" /\ err = "none" /\ rev = frev /\ rev \in {29, 30})
    => LET kept == SelectSeq(seclog, BothResolve)
       IN \A n \in 1..Len(branchdata) :
            n <= Len(kept) =>
              /\ branchdata[n][1] = busdata[RowOf(kept[n][1])][1]
              /\ branchdata[n][2] = busdata[RowOf(kept[n][2])][1]

====
